---- MODULE Spec2Model ----
(***************************************************************************)
(* Connectivity grouping of a set of H3 cells: the BFS loop of             *)
(* H3AdvancedLearning.step_8_grid_analysis (src/src/advanced/              *)
(* h3_advanced.py, lines 284-306 and the return at line 352).              *)
(*                                                                         *)
(* Cells are opaque identifiers.  The adjacency oracle (h3.k_ring(c, 1) in *)
(* the source) is external: its answer for a cell is an input of the step  *)
(* that queries it, drawn from every subset of the universe, and recorded  *)
(* in N so that a repeated query of the same cell gets the same answer.    *)
(***************************************************************************)
EXTENDS Integers, Sequences, FiniteSets, TLC

\* Number of distinct cell identifiers the oracle and the input can mention.
MaxCells == 3

Universe == 1..MaxCells

VARIABLES
    all_hexes,          \* the caller's cell set (line 259-279), input of the loop
    unvisited,          \* line 285
    group,              \* line 290
    queue,              \* line 291
    connected_groups,   \* line 284
    pc,                 \* "outer" (line 287), "inner" (line 293), "done", "raised"
    result,             \* {} until the return, then {connected_groups} (line 352)
    N,                  \* the oracle's answers so far: cell -> set of cells
    calls,              \* how often the oracle was queried for each cell
    oracle_failed,      \* TRUE once an oracle call has raised
    other,              \* the locals of a second, concurrent call of the loop
    sq,                 \* the square-grid comparison (hexagon_vs_square_performance.py)
    rq,                 \* the square-grid range query (test_5_range_query_performance)
    perf,               \* the dummy data of a HexagonVsSquarePerformance object
    pg,                 \* the main flow of h3_advance_with_pg.py
    delivery,           \* the order matching of example_1_delivery_service
    cache               \* the index cache of step_12_performance_optimization

\* the variables of one call of the grouping loop
loop_vars == <<all_hexes, unvisited, group, queue, connected_groups, pc,
               result, N, calls, oracle_failed>>

\* the variables of the other scripts
ext_vars == <<rq, perf, pg, delivery, cache>>

vars == <<loop_vars, other, sq, ext_vars>>

----------------------------------------------------------------------------
\* Helpers

Range(s) == {s[i] : i \in DOMAIN s}

Min(S) == CHOOSE x \in S : \A y \in S : x <= y

\* All orders in which a finite set can be iterated.
Perms(S) ==
    {s \in [1..Cardinality(S) -> S] :
        \A i, j \in 1..Cardinality(S) : i # j => s[i] # s[j]}

\* The ascending order.
RECURSIVE SortedSeq(_)
SortedSeq(S) ==
    IF S = {} THEN <<>> ELSE <<Min(S)>> \o SortedSeq(S \ {Min(S)})

\* The oracle's answer for c as far as it is known ({} when never queried).
Nbrs(c) == IF c \in DOMAIN N THEN N[c] ELSE {}

----------------------------------------------------------------------------
\* The pieces of the loop body

\* line 284: connected_groups = []
InitGroupsAppendsEmpty == <<{}>>
InitGroups == <<>>

\* line 289: next(iter(unvisited)) -- the iteration order of a Python set of
\* strings is arbitrary, so any unvisited cell may be the seed.
SeedsFromInput(unv, cells) == cells
Seeds(unv, cells) == unv

\* line 297: unvisited.remove(current_hex)
RemoveNothing(unv, c) == unv
Remove(unv, c) == unv \ {c}

\* line 285: unvisited = set(all_hexes) is a copy, so line 297 leaves the
\* caller's set alone.
AliasedAfterRemove(cells, c) == cells \ {c}
AllHexesAfterRemove(cells, c) == cells

\* line 300: h3.k_ring(current_hex, 1) -- any set of cells, but the same set
\* when the same cell is queried again.
OracleAnswers(c) == IF c \in DOMAIN N THEN {N[c]} ELSE SUBSET Universe

\* lines 301-303: the neighbours appended to the queue
EnqueuedUnfiltered(neighbors, unv) == neighbors
Enqueued(neighbors, unv) == neighbors \cap unv

\* line 301: for neighbor in neighbors -- the set is iterated in any order
OrdersFirstOnly(S) == IF S = {} THEN {<<>>} ELSE {<<x>> : x \in S}
Orders(S) == Perms(S)

\* lines 305-306: if group: connected_groups.append(group)
ClosedDropsSingletons(groups, grp) ==
    IF Cardinality(grp) > 1 THEN Append(groups, grp) ELSE groups
Closed(groups, grp) == IF grp # {} THEN Append(groups, grp) ELSE groups

\* line 300 raising: nothing in step_8_grid_analysis catches it, so the call
\* ends with the exception.
OracleFailureSwallowed == "inner"
AfterOracleFailure == "raised"

----------------------------------------------------------------------------
LoopInit ==
    /\ all_hexes \in SUBSET Universe
    /\ unvisited = all_hexes
    /\ group = {}
    /\ queue = <<>>
    /\ connected_groups = InitGroups
    /\ pc = "outer"
    /\ result = {}
    /\ N = [c \in {} |-> {}]
    /\ calls = [c \in Universe |-> 0]
    /\ oracle_failed = FALSE

\* no second call is running
NoCall == [pc |-> "none"]

\* the square-grid comparison is not running
NoGrid == [pc |-> "none"]

\* none of the other scripts is running
NoRun == [pc |-> "none"]

ExtIdle ==
    /\ rq = NoRun
    /\ perf = NoRun
    /\ pg = NoRun
    /\ delivery = NoRun
    /\ cache = NoRun

Init ==
    /\ LoopInit
    /\ other = NoCall
    /\ sq = NoGrid
    /\ ExtIdle

\* lines 287-291: while unvisited: pick a seed, start a group
PickSeed ==
    /\ pc = "outer"
    /\ unvisited # {}
    /\ \E start_hex \in Seeds(unvisited, all_hexes) :
          queue' = <<start_hex>>
    /\ group' = {}
    /\ pc' = "inner"
    /\ UNCHANGED <<all_hexes, unvisited, connected_groups, result, N, calls,
                   oracle_failed>>

\* lines 293-303, current_hex still unvisited, the oracle answers
Visit ==
    /\ pc = "inner"
    /\ queue # <<>>
    /\ LET current_hex == Head(queue) IN
       /\ current_hex \in unvisited
       /\ group' = group \cup {current_hex}
       /\ unvisited' = Remove(unvisited, current_hex)
       /\ all_hexes' = AllHexesAfterRemove(all_hexes, current_hex)
       /\ calls' = [calls EXCEPT ![current_hex] = @ + 1]
       /\ \E neighbors \in OracleAnswers(current_hex) :
             /\ N' = (current_hex :> neighbors) @@ N
             /\ \E order \in Orders(Enqueued(neighbors, unvisited')) :
                   queue' = Tail(queue) \o order
    /\ UNCHANGED <<connected_groups, pc, result, oracle_failed>>

\* lines 294-300, current_hex still unvisited, the oracle raises
OracleRaise ==
    /\ pc = "inner"
    /\ queue # <<>>
    /\ LET current_hex == Head(queue) IN
       /\ current_hex \in unvisited
       /\ group' = group \cup {current_hex}
       /\ unvisited' = Remove(unvisited, current_hex)
       /\ all_hexes' = AllHexesAfterRemove(all_hexes, current_hex)
       /\ calls' = [calls EXCEPT ![current_hex] = @ + 1]
    /\ queue' = Tail(queue)
    /\ oracle_failed' = TRUE
    /\ pc' = AfterOracleFailure
    /\ UNCHANGED <<connected_groups, result, N>>

\* lines 294-295, current_hex already visited: popped and dropped
Skip ==
    /\ pc = "inner"
    /\ queue # <<>>
    /\ Head(queue) \notin unvisited
    /\ queue' = Tail(queue)
    /\ UNCHANGED <<all_hexes, unvisited, group, connected_groups, pc, result,
                   N, calls, oracle_failed>>

\* lines 293, 305-306: the queue is empty, the group is closed
CloseGroup ==
    /\ pc = "inner"
    /\ queue = <<>>
    /\ connected_groups' = Closed(connected_groups, group)
    /\ pc' = "outer"
    /\ UNCHANGED <<all_hexes, unvisited, group, queue, result, N, calls,
                   oracle_failed>>

\* lines 287, 352: unvisited is empty, the groups are returned
Return ==
    /\ pc = "outer"
    /\ unvisited = {}
    /\ result' = {connected_groups}
    /\ pc' = "done"
    /\ UNCHANGED <<all_hexes, unvisited, group, queue, connected_groups, N,
                   calls, oracle_failed>>

\* one step of the call, which touches nothing but its own locals
LoopNext ==
    \/ PickSeed
    \/ Visit
    \/ OracleRaise
    \/ Skip
    \/ CloseGroup
    \/ Return

Next ==
    \/ PickSeed /\ UNCHANGED <<other, sq, ext_vars>>
    \/ Visit /\ UNCHANGED <<other, sq, ext_vars>>
    \/ OracleRaise /\ UNCHANGED <<other, sq, ext_vars>>
    \/ Skip /\ UNCHANGED <<other, sq, ext_vars>>
    \/ CloseGroup /\ UNCHANGED <<other, sq, ext_vars>>
    \/ Return /\ UNCHANGED <<other, sq, ext_vars>>

Spec == Init /\ [][Next]_vars

----------------------------------------------------------------------------
\* The same loop as a function of the input and a total oracle, with the two
\* arbitrary orders fixed: the smallest unvisited cell is the seed and the
\* neighbours are enqueued in ascending order.

\* lines 293-303; the result is <<unvisited, group>> when the queue is empty
RECURSIVE RefInner(_, _, _)
RefInner(unv, grp, q) ==
    IF q = <<>> THEN <<unv, grp>>
    ELSE LET current_hex == Head(q) IN
         IF current_hex \in unv
         THEN LET unv2 == Remove(unv, current_hex)
              IN  RefInner(unv2, grp \cup {current_hex},
                           Tail(q) \o SortedSeq(Enqueued(Nbrs(current_hex), unv2)))
         ELSE RefInner(unv, grp, Tail(q))

\* lines 287-306
RECURSIVE RefOuter(_, _)
RefOuter(unv, groups) ==
    IF unv = {} THEN groups
    ELSE LET r == RefInner(unv, {}, <<Min(unv)>>)
         IN  RefOuter(r[1], Closed(groups, r[2]))

\* lines 284-306 on the caller's set
RefGroups == RefOuter(all_hexes, InitGroups)

\* The loop is sequential code: whenever a step is possible it is taken.
FairSpec == Spec /\ WF_vars(Next)

----------------------------------------------------------------------------
(***************************************************************************)
(* The square-grid comparison of hexagon_vs_square_performance.py:         *)
(* square_grid_index (lines 309-317) and square_grid_neighbors             *)
(* (lines 363-370), driven as test_1 and test_2 drive them.                *)
(*                                                                         *)
(* Latitudes and longitudes are exact rationals <<numerator, denominator>> *)
(* with a positive denominator; floating-point rounding is left out.  An   *)
(* identifier f"{a}_{b}_{c}" is the tuple <<a, b, c>> of its integer       *)
(* fields, f"{a}_{b}" the tuple <<a, b>>.                                  *)
(***************************************************************************)

\* Resolutions are 0..MaxRes.
MaxRes == 1

\* A coordinate is a multiple of 1/SubCell of the finest cell's width.
SubCell == 2

\* Coordinates run from -MaxCoord to MaxCoord of these units.
MaxCoord == 4

\* Ring distances are 0..MaxK.
MaxK == 2

RECURSIVE Pow2(_)
Pow2(n) == IF n = 0 THEN 1 ELSE 2 * Pow2(n - 1)

Abs(n) == IF n < 0 THEN -n ELSE n

RatDiv(p, q) == <<p[1] * q[2], p[2] * q[1]>>

RatLess(p, q) == p[1] * q[2] < q[1] * p[2]

\* the point m units from zero, in degrees
Degrees(m) == <<m, 10 * Pow2(MaxRes) * SubCell>>

Resolutions == 0..MaxRes

Points == {<<Degrees(a), Degrees(b)>> : a, b \in -MaxCoord..MaxCoord}

\* int(x) of Python: truncation toward zero
PyInt(x) ==
    IF x[1] >= 0 THEN x[1] \div x[2] ELSE -((-x[1]) \div x[2])

\* lines 312, 373: 0.1 / (2 ** resolution)
GridSizeDoubles(resolution) == <<Pow2(resolution), 10>>
grid_size(resolution) == <<1, 10 * Pow2(resolution)>>

\* lines 309-317
IndexKeepsLatitude(lat, lng, resolution) ==
    <<PyInt(RatDiv(lng, grid_size(resolution))), lat[1], resolution>>
square_grid_index(lat, lng, resolution) ==
    LET grid_x == PyInt(RatDiv(lng, grid_size(resolution)))
        grid_y == PyInt(RatDiv(lat, grid_size(resolution)))
    IN  <<grid_x, grid_y, resolution>>

\* lines 365-366: dx and dy run over range(-k, k+1), dy in the inner loop
Offsets(k) ==
    IF k < 0 THEN <<>>
    ELSE [i \in 1..((2 * k + 1) * (2 * k + 1)) |->
            <<((i - 1) \div (2 * k + 1)) - k, ((i - 1) % (2 * k + 1)) - k>>]

\* line 367: if abs(dx) + abs(dy) <= k
WithinSquare(dx, dy, k) == TRUE
WithinButCentre(dx, dy, k) == 0 < Abs(dx) + Abs(dy) /\ Abs(dx) + Abs(dy) <= k
Within(dx, dy, k) == Abs(dx) + Abs(dy) <= k

\* lines 363-370
square_grid_neighbors(grid_x, grid_y, k) ==
    LET kept == SelectSeq(Offsets(k), LAMBDA d : Within(d[1], d[2], k))
    IN  [i \in DOMAIN kept |-> <<grid_x + kept[i][1], grid_y + kept[i][2]>>]

\* test_1 indexes the points at one resolution; test_2 takes the first point
\* as the centre and asks for its neighbours within k.
GridInit ==
    /\ LoopInit
    /\ all_hexes = {}
    /\ other = NoCall
    /\ ExtIdle
    /\ \E a, b \in Points, resolution \in Resolutions, k \in 0..MaxK :
          sq = [pc |-> "test_1", points |-> <<a, b>>,
                resolution |-> resolution, k |-> k,
                square_indices |-> <<>>, grid_size |-> <<>>,
                center_grid |-> <<>>, neighbors |-> <<>>]

\* lines 319-322: square_indices = [square_grid_index(lat, lng, resolution) ...]
IndexPoints ==
    /\ sq.pc = "test_1"
    /\ sq' = [sq EXCEPT
                !.square_indices =
                    [i \in DOMAIN sq.points |->
                        square_grid_index(sq.points[i][1], sq.points[i][2],
                                          sq.resolution)],
                !.pc = "test_2"]
    /\ UNCHANGED <<loop_vars, other, ext_vars>>

\* lines 373-375: the centre's grid coordinates
CenterGrid ==
    /\ sq.pc = "test_2"
    /\ LET center_lat == sq.points[1][1]
           center_lng == sq.points[1][2]
           size == grid_size(sq.resolution)
       IN  sq' = [sq EXCEPT
                    !.grid_size = size,
                    !.center_grid = <<PyInt(RatDiv(center_lng, size)),
                                      PyInt(RatDiv(center_lat, size))>>,
                    !.pc = "neighbors"]
    /\ UNCHANGED <<loop_vars, other, ext_vars>>

\* line 381: neighbors = square_grid_neighbors(center_grid_x, center_grid_y, k)
NeighborQuery ==
    /\ sq.pc = "neighbors"
    /\ sq' = [sq EXCEPT
                !.neighbors = square_grid_neighbors(sq.center_grid[1],
                                                    sq.center_grid[2], sq.k),
                !.pc = "done"]
    /\ UNCHANGED <<loop_vars, other, ext_vars>>

GridNext ==
    \/ IndexPoints
    \/ CenterGrid
    \/ NeighborQuery

GridSpec == GridInit /\ [][GridNext]_vars

----------------------------------------------------------------------------
(***************************************************************************)
(* square_grid_neighbors (lines 363-370) as a function of its arguments:   *)
(* queried for two cells a and b with the same k, then for a with k + 1,   *)
(* as the loop of lines 378-381 queries one centre with growing k.         *)
(***************************************************************************)

\* Grid coordinates of the cells queried are -MaxGrid..MaxGrid.
MaxGrid == 3

GridCells == (-MaxGrid..MaxGrid) \X (-MaxGrid..MaxGrid)

NeighborInit ==
    /\ LoopInit
    /\ all_hexes = {}
    /\ other = NoCall
    /\ ExtIdle
    /\ \E a, b \in GridCells, k \in 0..MaxK :
          sq = [pc |-> "pair", a |-> a, b |-> b, k |-> k,
                of_a |-> <<>>, of_b |-> <<>>, of_a_next |-> <<>>]

\* line 381 for both cells
QueryPair ==
    /\ sq.pc = "pair"
    /\ sq' = [sq EXCEPT
                !.of_a = square_grid_neighbors(sq.a[1], sq.a[2], sq.k),
                !.of_b = square_grid_neighbors(sq.b[1], sq.b[2], sq.k),
                !.pc = "next_k"]
    /\ UNCHANGED <<loop_vars, other, ext_vars>>

\* lines 378-381: the next k of the loop
QueryNextK ==
    /\ sq.pc = "next_k"
    /\ sq' = [sq EXCEPT
                !.of_a_next = square_grid_neighbors(sq.a[1], sq.a[2], sq.k + 1),
                !.pc = "queried"]
    /\ UNCHANGED <<loop_vars, other, ext_vars>>

NeighborNext ==
    \/ QueryPair
    \/ QueryNextK

NeighborSpec == NeighborInit /\ [][NeighborNext]_vars

----------------------------------------------------------------------------
(***************************************************************************)
(* The square-grid range query of test_5_range_query_performance           *)
(* (hexagon_vs_square_performance.py, lines 633-649 and 699-714): the      *)
(* points are filed under their grid cell, then the cells between the      *)
(* corners of the query rectangle are scanned and their points filtered.   *)
(***************************************************************************)

\* line 633: resolution = 8
RangeResolution == 8

\* Coordinates of points and rectangle corners run from -RangeCoord to
\* RangeCoord units, a unit being 1/SubCell of the cell width.
RangeCoord == 2

\* Number of points filed.
RangePoints == 2

\* the coordinate m units from zero, in degrees
RangeDegrees(m) == <<m, 10 * Pow2(RangeResolution) * SubCell>>

RangeValues == {RangeDegrees(m) : m \in -RangeCoord..RangeCoord}

RatLeq(p, q) == p[1] * q[2] <= q[1] * p[2]

\* line 649: square_points[square_index].append((lat, lng, i)) on a
\* defaultdict(list)
Filed(points_of, key, entry) ==
    IF key \in DOMAIN points_of
    THEN [points_of EXCEPT ![key] = Append(@, entry)]
    ELSE (key :> <<entry>>) @@ points_of

\* lines 642-649: the loop over the points, from point i on
RECURSIVE Classify(_, _, _, _)
Classify(points, i, size, points_of) ==
    IF i > Len(points) THEN points_of
    ELSE LET lat == points[i][1]
             lng == points[i][2]
             grid_x == PyInt(RatDiv(lng, size))
             grid_y == PyInt(RatDiv(lat, size))
         IN  Classify(points, i + 1, size,
                      Filed(points_of, <<grid_x, grid_y>>, <<lat, lng, i - 1>>))

\* lines 707-708: range(grid_min, grid_max + 1)
ScanRangeExclusive(lo, hi) ==
    IF hi <= lo THEN <<>> ELSE [i \in 1..(hi - lo) |-> lo + i - 1]
ScanRange(lo, hi) ==
    IF hi < lo THEN <<>> ELSE [i \in 1..(hi - lo + 1) |-> lo + i - 1]

\* lines 711-713: the points of one cell that lie in the rectangle
InArea(area, lat, lng) ==
    /\ RatLeq(area.lat_min, lat) /\ RatLeq(lat, area.lat_max)
    /\ RatLeq(area.lng_min, lng) /\ RatLeq(lng, area.lng_max)

CellHits(points_of, key, area) ==
    IF key \in DOMAIN points_of
    THEN LET kept == SelectSeq(points_of[key],
                               LAMBDA e : InArea(area, e[1], e[2]))
         IN  [i \in DOMAIN kept |-> kept[i][3]]
    ELSE <<>>

\* lines 707-714: the scan, grid_y in the inner loop
RECURSIVE ScanCells(_, _, _, _)
ScanCells(cells, j, points_of, area) ==
    IF j > Len(cells) THEN <<>>
    ELSE CellHits(points_of, cells[j], area)
             \o ScanCells(cells, j + 1, points_of, area)

ScanOrder(xs, ys) ==
    [n \in 1..(Len(xs) * Len(ys)) |->
        <<xs[((n - 1) \div Len(ys)) + 1], ys[((n - 1) % Len(ys)) + 1]>>]

RangeInit ==
    /\ LoopInit
    /\ all_hexes = {}
    /\ other = NoCall
    /\ sq = NoGrid
    /\ perf = NoRun /\ pg = NoRun /\ delivery = NoRun /\ cache = NoRun
    /\ \E points \in [1..RangePoints -> RangeValues \X RangeValues],
          lat_min, lat_max, lng_min, lng_max \in RangeValues :
          /\ RatLeq(lat_min, lat_max)
          /\ RatLeq(lng_min, lng_max)
          /\ rq = [pc |-> "classify", points |-> points,
                   area |-> [lat_min |-> lat_min, lat_max |-> lat_max,
                             lng_min |-> lng_min, lng_max |-> lng_max],
                   grid_size |-> <<>>,
                   square_points |-> [key \in {} |-> <<>>],
                   scanned |-> <<>>,
                   square_result |-> <<>>]

\* lines 640-649
ClassifyPoints ==
    /\ rq.pc = "classify"
    /\ LET size == grid_size(RangeResolution)
       IN  rq' = [rq EXCEPT
                    !.grid_size = size,
                    !.square_points =
                        Classify(rq.points, 1, size, [key \in {} |-> <<>>]),
                    !.pc = "corners"]
    /\ UNCHANGED <<loop_vars, other, sq, perf, pg, delivery, cache>>

\* lines 699-705: the cells between the corners of the rectangle
Corners ==
    /\ rq.pc = "corners"
    /\ LET grid_x_min == PyInt(RatDiv(rq.area.lng_min, rq.grid_size))
           grid_x_max == PyInt(RatDiv(rq.area.lng_max, rq.grid_size))
           grid_y_min == PyInt(RatDiv(rq.area.lat_min, rq.grid_size))
           grid_y_max == PyInt(RatDiv(rq.area.lat_max, rq.grid_size))
       IN  rq' = [rq EXCEPT
                    !.scanned = ScanOrder(ScanRange(grid_x_min, grid_x_max),
                                          ScanRange(grid_y_min, grid_y_max)),
                    !.pc = "scan"]
    /\ UNCHANGED <<loop_vars, other, sq, perf, pg, delivery, cache>>

\* lines 707-714
Scan ==
    /\ rq.pc = "scan"
    /\ rq' = [rq EXCEPT
                !.square_result =
                    ScanCells(rq.scanned, 1, rq.square_points, rq.area),
                !.pc = "done"]
    /\ UNCHANGED <<loop_vars, other, sq, perf, pg, delivery, cache>>

RangeNext ==
    \/ ClassifyPoints
    \/ Corners
    \/ Scan

RangeSpec == RangeInit /\ [][RangeNext]_vars

----------------------------------------------------------------------------
(***************************************************************************)
(* The dummy data of a HexagonVsSquarePerformance object                   *)
(* (hexagon_vs_square_performance.py): load_or_create_dummy_data           *)
(* (lines 222-262) and prepare_performance_data (lines 264-284), called    *)
(* in any order on one object.                                             *)
(*                                                                         *)
(* A data set is the sequence of its rows' is_active values.  The CSV file *)
(* is missing, unreadable ("corrupt"), readable but without the columns    *)
(* the load reports on ("nocolumns"), or holds a data set.                 *)
(***************************************************************************)

\* Rows of a data set.
MaxRows == 2

\* Calls made on the object.
MaxPerfCalls == 3

\* line 270: min(len(self.dummy_data), 50000)
SampleDefault == 50000

Datasets == UNION {[1..n -> BOOLEAN] : n \in 0..MaxRows}

NoData == [kind |-> "None", rows |-> <<>>]

DataOf(rows) == [kind |-> "data", rows |-> rows]

Files ==
    {[kind |-> k, rows |-> <<>>] : k \in {"missing", "corrupt", "nocolumns"}}
        \cup {DataOf(rows) : rows \in Datasets}

\* lines 224-243: the file exists and the try block runs to its return
Loads(file, read_ok) == file.kind = "data" /\ read_ok

\* lines 222-262.  read_ok: pd.read_csv does not raise; generated: what
\* generate_dummy_data returns; write_ok: to_csv does not raise.
LoadAlwaysCreates(p, read_ok, generated, write_ok) ==
    [p EXCEPT !.dummy_data = DataOf(generated),
              !.gens = @ + 1,
              !.writes = @ + 1,
              !.file = IF write_ok THEN DataOf(generated)
                       ELSE [kind |-> "corrupt", rows |-> <<>>],
              !.path = "created",
              !.ret = IF write_ok THEN DataOf(generated) ELSE NoData,
              !.pc = IF write_ok THEN "ready" ELSE "raised"]
load_or_create_dummy_data(p, read_ok, generated, write_ok) ==
    IF Loads(p.file, read_ok)
    THEN [p EXCEPT !.dummy_data = DataOf(p.file.rows),
                   !.path = "loaded",
                   !.ret = DataOf(p.file.rows)]
    ELSE [p EXCEPT !.dummy_data = DataOf(generated),
                   !.gens = @ + 1,
                   !.writes = @ + 1,
                   !.file = IF write_ok THEN DataOf(generated)
                            ELSE [kind |-> "corrupt", rows |-> <<>>],
                   !.path = "created",
                   !.ret = IF write_ok THEN DataOf(generated) ELSE NoData,
                   !.pc = IF write_ok THEN "ready" ELSE "raised"]

\* line 273: self.dummy_data[self.dummy_data['is_active'] == True]
AllRows(rows) == DOMAIN rows
ActiveRows(rows) == {i \in DOMAIN rows : rows[i]}

\* lines 275-277
Clipped(sample_size, active) ==
    IF Cardinality(active) < sample_size THEN Cardinality(active)
    ELSE sample_size

\* line 280: active_data.sample(n=sample_size, random_state=42) -- some
\* sample_size rows of the active ones, without replacement
Samples(active, n) == {S \in SUBSET active : Cardinality(S) = n}

PerfInit ==
    /\ LoopInit
    /\ all_hexes = {}
    /\ other = NoCall
    /\ sq = NoGrid
    /\ rq = NoRun /\ pg = NoRun /\ delivery = NoRun /\ cache = NoRun
    /\ \E file \in Files :
          perf = [pc |-> "ready", file |-> file, dummy_data |-> NoData,
                  gens |-> 0, writes |-> 0, ncalls |-> 0,
                  op |-> "none", path |-> "none", read_ok |-> FALSE,
                  ret |-> NoData, requested |-> 0, sample |-> {}]

\* a call of load_or_create_dummy_data
LoadOrCreate ==
    /\ perf.pc = "ready"
    /\ perf.ncalls < MaxPerfCalls
    /\ \E read_ok, write_ok \in BOOLEAN, generated \in Datasets :
          perf' = [load_or_create_dummy_data(perf, read_ok, generated, write_ok)
                      EXCEPT !.ncalls = @ + 1, !.op = "load",
                             !.read_ok = read_ok]
    /\ UNCHANGED <<loop_vars, other, sq, rq, pg, delivery, cache>>

\* lines 264-284 from line 273 on, with sample_size settled
Sampled(p, sample_size) ==
    LET active == ActiveRows(p.dummy_data.rows)
    IN  {[p EXCEPT !.requested = sample_size, !.sample = S] :
            S \in Samples(active, Clipped(sample_size, active))}

\* lines 265-266: load or create first when nothing is loaded yet
Prepared(p, read_ok, generated, write_ok) ==
    IF p.dummy_data.kind = "None"
    THEN load_or_create_dummy_data(p, read_ok, generated, write_ok)
    ELSE [p EXCEPT !.path = "kept"]

\* a call of prepare_performance_data(sample_size)
Prepare ==
    /\ perf.pc = "ready"
    /\ perf.ncalls < MaxPerfCalls
    /\ \E read_ok, write_ok \in BOOLEAN, generated \in Datasets,
          sample_size \in 0..(MaxRows + 1) :
          LET p == [Prepared(perf, read_ok, generated, write_ok)
                       EXCEPT !.ncalls = @ + 1, !.op = "prepare",
                              !.read_ok = read_ok]
          IN  IF p.pc = "raised" THEN perf' = p
              ELSE perf' \in Sampled(p, sample_size)
    /\ UNCHANGED <<loop_vars, other, sq, rq, pg, delivery, cache>>

\* a call of prepare_performance_data() -- lines 268-270 settle sample_size
PrepareDefault ==
    /\ perf.pc = "ready"
    /\ perf.ncalls < MaxPerfCalls
    /\ \E read_ok, write_ok \in BOOLEAN, generated \in Datasets :
          LET p == [Prepared(perf, read_ok, generated, write_ok)
                       EXCEPT !.ncalls = @ + 1, !.op = "prepare_default",
                              !.read_ok = read_ok]
              n == Len(p.dummy_data.rows)
          IN  IF p.pc = "raised" THEN perf' = p
              ELSE perf' \in Sampled(p, IF n < SampleDefault THEN n
                                        ELSE SampleDefault)
    /\ UNCHANGED <<loop_vars, other, sq, rq, pg, delivery, cache>>

\* what happens to the file between two calls: it is deleted or damaged
FileChanges ==
    /\ perf.pc = "ready"
    /\ perf.ncalls > 0
    /\ perf.ncalls < MaxPerfCalls
    /\ perf.op # "file"
    /\ \E k \in {"missing", "corrupt", "nocolumns"} :
          /\ perf.file.kind # k
          /\ perf' = [perf EXCEPT !.file = [kind |-> k, rows |-> <<>>],
                                  !.op = "file"]
    /\ UNCHANGED <<loop_vars, other, sq, rq, pg, delivery, cache>>

PerfNext ==
    \/ LoadOrCreate
    \/ Prepare
    \/ PrepareDefault
    \/ FileChanges

PerfSpec == PerfInit /\ [][PerfNext]_vars

----------------------------------------------------------------------------
(***************************************************************************)
(* The main flow of h3_advance_with_pg.py (main, lines 732-782), with      *)
(* connect_db (lines 70-82), check_tables (lines 84-128) and               *)
(* close_connection (lines 723-729).  What the database answers and which  *)
(* call raises are inputs of the step that makes the call.                 *)
(***************************************************************************)

\* lines 757-770: the calls between check_tables and the except clause
PgSteps ==
    <<"generate_test_data", "test_insert_performance",
      "test_select_performance", "test_update_performance",
      "test_delete_performance", "test_spatial_queries",
      "visualize_results", "generate_report">>

\* lines 753-754 inside the try of line 751: the return runs the finally
\* clause first
AfterCheckFalseSkipsFinally == "end"
AfterCheckFalse == "closing"

\* an exception leaving the try block: `except Exception` (line 772)
\* catches it, anything else (KeyboardInterrupt, SystemExit) goes through
\* the finally clause and on
AfterRaise(kind) == IF kind = "Exception" THEN "handler" ELSE "closing"

PgInit ==
    /\ LoopInit
    /\ all_hexes = {}
    /\ other = NoCall
    /\ sq = NoGrid
    /\ rq = NoRun /\ perf = NoRun /\ delivery = NoRun /\ cache = NoRun
    /\ pg = [pc |-> "connect", connected |-> FALSE, conn |-> "None",
             cursor |-> "None", checks |-> 0, check |-> "none", ran |-> 0,
             raised |-> "none", handled |-> FALSE, closes |-> 0,
             completed |-> FALSE]

\* lines 747-750 with connect_db, lines 70-82
ConnectDb ==
    /\ pg.pc = "connect"
    /\ \E outcome \in {"ok", "connect_raises", "cursor_raises"} :
          pg' = [pg EXCEPT
                   !.connected = (outcome = "ok"),
                   !.conn = IF outcome = "connect_raises" THEN "None"
                            ELSE "open",
                   !.cursor = IF outcome = "ok" THEN "open" ELSE "None",
                   !.pc = IF outcome = "ok" THEN "check" ELSE "end"]
    /\ UNCHANGED <<loop_vars, other, sq, rq, perf, delivery, cache>>

\* lines 752-754 with check_tables, lines 84-128
CheckTables ==
    /\ pg.pc = "check"
    /\ \E outcome \in {"no_tables", "empty", "kept", "truncated",
                       "Exception", "BaseException"} :
          pg' = [pg EXCEPT
                   !.checks = @ + 1,
                   !.check = outcome,
                   !.raised = IF outcome \in {"Exception", "BaseException"}
                              THEN outcome ELSE "none",
                   !.pc = CASE outcome = "no_tables" -> AfterCheckFalse
                            [] outcome \in {"Exception", "BaseException"}
                                  -> AfterRaise(outcome)
                            [] OTHER -> "step"]
    /\ UNCHANGED <<loop_vars, other, sq, rq, perf, delivery, cache>>

\* lines 757-770: the next call returns
RunStep ==
    /\ pg.pc = "step"
    /\ pg.ran < Len(PgSteps)
    /\ pg' = [pg EXCEPT
                !.ran = @ + 1,
                !.pc = IF pg.ran + 1 = Len(PgSteps) THEN "closing" ELSE "step"]
    /\ UNCHANGED <<loop_vars, other, sq, rq, perf, delivery, cache>>

\* lines 757-770: the next call raises
StepRaises ==
    /\ pg.pc = "step"
    /\ pg.ran < Len(PgSteps)
    /\ \E kind \in {"Exception", "BaseException"} :
          pg' = [pg EXCEPT !.ran = @ + 1, !.raised = kind,
                           !.pc = AfterRaise(kind)]
    /\ UNCHANGED <<loop_vars, other, sq, rq, perf, delivery, cache>>

\* lines 772-775: except Exception
HandleError ==
    /\ pg.pc = "handler"
    /\ pg' = [pg EXCEPT !.handled = TRUE, !.pc = "closing"]
    /\ UNCHANGED <<loop_vars, other, sq, rq, perf, delivery, cache>>

\* lines 777-782 with close_connection, lines 723-729; line 782 is reached
\* unless check_tables returned False or an exception is on its way out
CloseConnection ==
    /\ pg.pc = "closing"
    /\ \E close_ok \in BOOLEAN :
          pg' = [pg EXCEPT
                   !.closes = @ + 1,
                   !.cursor = IF @ = "open" THEN "closed" ELSE @,
                   !.conn = IF @ = "open" /\ close_ok THEN "closed" ELSE @,
                   !.completed = /\ close_ok
                                 /\ pg.check # "no_tables"
                                 /\ pg.raised # "BaseException",
                   !.pc = "end"]
    /\ UNCHANGED <<loop_vars, other, sq, rq, perf, delivery, cache>>

PgNext ==
    \/ ConnectDb
    \/ CheckTables
    \/ RunStep
    \/ StepRaises
    \/ HandleError
    \/ CloseConnection

PgSpec == PgInit /\ [][PgNext]_vars

----------------------------------------------------------------------------
(***************************************************************************)
(* The order matching of example_1_delivery_service                        *)
(* (h3_practical_examples.py, lines 71-92).  A driver is its position in   *)
(* the list of drivers, an order its position in the list of orders.       *)
(* h3.h3_distance is external: the distances of an order to the available  *)
(* drivers are inputs of the iteration that matches the order.             *)
(***************************************************************************)

\* Drivers in the list.
MaxDrivers == 3

\* Orders in the list.
MaxOrders == 2

\* Distances are 0..MaxDist.
MaxDist == 1

\* line 71: df_drivers[df_drivers['status'] == 'available'], in list order
Available(drivers) ==
    SelectSeq([i \in DOMAIN drivers |-> i],
              LAMBDA i : drivers[i] = "available")

\* line 76: min_distance = float('inf'); line 75: best_driver = None (0)
Unmatched == [best_driver |-> 0, inf |-> TRUE, min_distance |-> 0]

\* line 80: if distance < min_distance
NotGreater(distance, m) == m.inf \/ distance <= m.min_distance
Closer(distance, m) == m.inf \/ distance < m.min_distance

\* lines 78-82: the loop over the available drivers, from the i-th on
RECURSIVE BestDriver(_, _, _, _)
BestDriver(available, dist, i, m) ==
    IF i > Len(available) THEN m
    ELSE LET driver == available[i]
             distance == dist[driver]
         IN  BestDriver(available, dist, i + 1,
                        IF Closer(distance, m)
                        THEN [best_driver |-> driver, inf |-> FALSE,
                              min_distance |-> distance]
                        ELSE m)

DeliveryInit ==
    /\ LoopInit
    /\ all_hexes = {}
    /\ other = NoCall
    /\ sq = NoGrid
    /\ rq = NoRun /\ perf = NoRun /\ pg = NoRun /\ cache = NoRun
    /\ \E n \in 0..MaxDrivers, orders \in 0..MaxOrders :
          \E drivers \in [1..n -> {"available", "busy"}] :
              delivery = [pc |-> "matching", drivers |-> drivers,
                          orders |-> orders, order |-> 0,
                          dist |-> [d \in {} |-> 0], matches |-> <<>>]

\* lines 73-89: one iteration of the loop over the orders
MatchOrder ==
    /\ delivery.pc = "matching"
    /\ delivery.order < delivery.orders
    /\ LET available == Available(delivery.drivers) IN
       \E dist \in [Range(available) -> 0..MaxDist] :
          LET m == BestDriver(available, dist, 1, Unmatched)
              order_id == delivery.order + 1
          IN  delivery' = [delivery EXCEPT
                  !.order = order_id,
                  !.dist = dist,
                  !.matches =
                      IF m.best_driver # 0
                      THEN Append(@, [order_id |-> order_id,
                                      driver_id |-> m.best_driver,
                                      h3_distance |-> m.min_distance])
                      ELSE @]
    /\ UNCHANGED <<loop_vars, other, sq, rq, perf, pg, cache>>

\* lines 73, 91-92: the orders are exhausted
MatchingDone ==
    /\ delivery.pc = "matching"
    /\ delivery.order = delivery.orders
    /\ delivery' = [delivery EXCEPT !.pc = "done"]
    /\ UNCHANGED <<loop_vars, other, sq, rq, perf, pg, cache>>

DeliveryNext ==
    \/ MatchOrder
    \/ MatchingDone

DeliverySpec == DeliveryInit /\ [][DeliveryNext]_vars

----------------------------------------------------------------------------
(***************************************************************************)
(* The index cache of step_12_performance_optimization (h3_advanced.py,    *)
(* lines 504-510).  A coordinate is a whole number of units, CacheSub      *)
(* units being one step of the rounding (1e-4 degrees for precision=4).    *)
(* h3.geo_to_h3 is external: a function of its arguments whose value for   *)
(* an argument triple is drawn when the triple is first used and recorded  *)
(* in `geo`.                                                               *)
(***************************************************************************)

\* Units per rounding step.
CacheSub == 2

\* Coordinates are 0..CacheCoord units.
CacheCoord == 3

\* Cells h3.geo_to_h3 can answer with.
CacheCells == 2

\* Calls of cached_geo_to_h3.
MaxCacheCalls == 3

\* round(x, precision) of Python for x = m / CacheSub rounding steps:
\* to the nearest step, a tie to the even one
PyRound(m) ==
    LET q == m \div CacheSub
        r == m % CacheSub
    IN  IF 2 * r < CacheSub THEN q
        ELSE IF 2 * r > CacheSub THEN q + 1
        ELSE IF q % 2 = 0 THEN q ELSE q + 1

\* line 507
CacheKey(lat, lng, resolution) == <<PyRound(lat), PyRound(lng), resolution>>

CacheArgs == (0..CacheCoord) \X (0..1) \X Resolutions

\* h3.geo_to_h3(lat, lng, resolution): the recorded answer, or any cell
GeoAnswers(args) ==
    IF args \in DOMAIN cache.geo THEN {cache.geo[args]} ELSE 1..CacheCells

CacheInit ==
    /\ LoopInit
    /\ all_hexes = {}
    /\ other = NoCall
    /\ sq = NoGrid
    /\ rq = NoRun /\ perf = NoRun /\ pg = NoRun /\ delivery = NoRun
    /\ cache = [pc |-> "ready", cache |-> [k \in {} |-> 0],
                geo |-> [a \in {} |-> 0], lookups |-> [k \in {} |-> 0],
                ncalls |-> 0, args |-> <<>>, key |-> <<>>, ret |-> 0]

\* lines 506-510, the key is not in the cache: look up, store, return
CacheMiss ==
    /\ cache.pc = "ready"
    /\ cache.ncalls < MaxCacheCalls
    /\ \E args \in CacheArgs :
          LET key == CacheKey(args[1], args[2], args[3]) IN
          /\ key \notin DOMAIN cache.cache
          /\ \E cell \in GeoAnswers(args) :
                cache' = [cache EXCEPT
                            !.cache = (key :> cell) @@ @,
                            !.geo = (args :> cell) @@ @,
                            !.lookups = (key :> 1) @@ @,
                            !.ncalls = @ + 1,
                            !.args = args, !.key = key, !.ret = cell]
    /\ UNCHANGED <<loop_vars, other, sq, rq, perf, pg, delivery>>

\* lines 506-510, the key is in the cache: return the stored cell.  The
\* cell the direct call gives for these arguments is recorded beside it.
CacheHit ==
    /\ cache.pc = "ready"
    /\ cache.ncalls < MaxCacheCalls
    /\ \E args \in CacheArgs :
          LET key == CacheKey(args[1], args[2], args[3]) IN
          /\ key \in DOMAIN cache.cache
          /\ \E cell \in GeoAnswers(args) :
                cache' = [cache EXCEPT
                            !.geo = (args :> cell) @@ @,
                            !.ncalls = @ + 1,
                            !.args = args, !.key = key,
                            !.ret = cache.cache[key]]
    /\ UNCHANGED <<loop_vars, other, sq, rq, perf, pg, delivery>>

CacheNext ==
    \/ CacheMiss
    \/ CacheHit

CacheSpec == CacheInit /\ [][CacheNext]_vars

----------------------------------------------------------------------------
(***************************************************************************)
(* Two calls of the loop, interleaved step by step.  all_hexes,            *)
(* unvisited, group, queue and connected_groups are locals of              *)
(* step_8_grid_analysis (lines 259, 284-291), so each call has its own:    *)
(* the first call's are the variables above, the second call's are the     *)
(* fields of the record `other`, which has its own input and oracle.       *)
(***************************************************************************)

\* Number of distinct cell identifiers of the first of the two interleaved
\* calls; the second call's cells are those of Universe.
MaxPairCells == 2

PairUniverse == 1..MaxPairCells

\* lines 285, 297: what unvisited.remove in one call does to the unvisited
\* set of the other call -- nothing, the set is a local of the call.
SharedUnvisited(unv, c) == unv \ {c}
ForeignUnvisited(unv, c) == unv

OtherInit ==
    \E cells \in SUBSET Universe :
        other = [all_hexes |-> cells, unvisited |-> cells, group |-> {},
                 queue |-> <<>>, connected_groups |-> InitGroups,
                 pc |-> "outer", result |-> {}, N |-> [c \in {} |-> {}]]

PairInit ==
    /\ LoopInit
    /\ all_hexes \subseteq PairUniverse
    /\ OtherInit
    /\ sq = NoGrid
    /\ ExtIdle

\* lines 287-291 in the second call
OtherPickSeed ==
    /\ other.pc = "outer"
    /\ other.unvisited # {}
    /\ \E start_hex \in Seeds(other.unvisited, other.all_hexes) :
          other' = [other EXCEPT !.queue = <<start_hex>>, !.group = {},
                                 !.pc = "inner"]
    /\ UNCHANGED loop_vars

\* lines 293-303 in the second call, the oracle answers
OtherVisit ==
    /\ other.pc = "inner"
    /\ other.queue # <<>>
    /\ LET current_hex == Head(other.queue)
           unv == Remove(other.unvisited, current_hex)
       IN  /\ current_hex \in other.unvisited
           /\ \E neighbors \in (IF current_hex \in DOMAIN other.N
                                THEN {other.N[current_hex]}
                                ELSE SUBSET Universe) :
                 \E order \in Orders(Enqueued(neighbors, unv)) :
                    other' = [other EXCEPT
                                !.group = @ \cup {current_hex},
                                !.unvisited = unv,
                                !.N = (current_hex :> neighbors) @@ @,
                                !.queue = Tail(@) \o order]
           /\ unvisited' = ForeignUnvisited(unvisited, current_hex)
    /\ UNCHANGED <<all_hexes, group, queue, connected_groups, pc, result, N,
                   calls, oracle_failed>>

\* lines 294-300 in the second call, the oracle raises
OtherRaise ==
    /\ other.pc = "inner"
    /\ other.queue # <<>>
    /\ LET current_hex == Head(other.queue) IN
       /\ current_hex \in other.unvisited
       /\ other' = [other EXCEPT
                      !.group = @ \cup {current_hex},
                      !.unvisited = Remove(@, current_hex),
                      !.queue = Tail(@),
                      !.pc = AfterOracleFailure]
       /\ unvisited' = ForeignUnvisited(unvisited, current_hex)
    /\ UNCHANGED <<all_hexes, group, queue, connected_groups, pc, result, N,
                   calls, oracle_failed>>

\* lines 294-295 in the second call
OtherSkip ==
    /\ other.pc = "inner"
    /\ other.queue # <<>>
    /\ Head(other.queue) \notin other.unvisited
    /\ other' = [other EXCEPT !.queue = Tail(@)]
    /\ UNCHANGED loop_vars

\* lines 293, 305-306 in the second call
OtherCloseGroup ==
    /\ other.pc = "inner"
    /\ other.queue = <<>>
    /\ other' = [other EXCEPT
                   !.connected_groups = Closed(@, other.group),
                   !.pc = "outer"]
    /\ UNCHANGED loop_vars

\* lines 287, 352 in the second call
OtherReturn ==
    /\ other.pc = "outer"
    /\ other.unvisited = {}
    /\ other' = [other EXCEPT !.result = {other.connected_groups},
                              !.pc = "done"]
    /\ UNCHANGED loop_vars

\* a step of the first call in the interleaving: what unvisited.remove does
\* to the second call's set is ForeignUnvisited as well
FirstCallStep ==
    /\ LoopNext
    /\ \A c \in DOMAIN N' : N'[c] \subseteq PairUniverse
    /\ other' = [other EXCEPT
                   !.unvisited =
                      IF unvisited' # unvisited
                      THEN ForeignUnvisited(@, Head(queue))
                      ELSE @]

PairNext ==
    \/ FirstCallStep /\ UNCHANGED <<sq, ext_vars>>
    \/ OtherPickSeed /\ UNCHANGED <<sq, ext_vars>>
    \/ OtherVisit /\ UNCHANGED <<sq, ext_vars>>
    \/ OtherRaise /\ UNCHANGED <<sq, ext_vars>>
    \/ OtherSkip /\ UNCHANGED <<sq, ext_vars>>
    \/ OtherCloseGroup /\ UNCHANGED <<sq, ext_vars>>
    \/ OtherReturn /\ UNCHANGED <<sq, ext_vars>>

PairSpec == PairInit /\ [][PairNext]_vars

----------------------------------------------------------------------------
\* Vocabulary of the properties

\* The cells reachable from S by chains c0, c1, ... with c(i+1) in
\* N(c_i) /\ all_hexes.
RECURSIVE ReachFrom(_)
ReachFrom(S) ==
    LET T == S \cup {d \in all_hexes : \E c \in S : d \in Nbrs(c)}
    IN  IF T = S THEN S ELSE ReachFrom(T)

Chain(a, b) == b \in ReachFrom({a})

SameGroup(gs, a, b) == \E i \in DOMAIN gs : a \in gs[i] /\ b \in gs[i]

\* The oracle restricted to the input is a symmetric relation, as one-step
\* adjacency of cells (h3.k_ring(c, 1)) is.
SymmetricOnInput ==
    \A a, b \in all_hexes : (b \in Nbrs(a)) <=> (a \in Nbrs(b))

Components == {ReachFrom({c}) : c \in all_hexes}

IsPartition(gs, cells) ==
    /\ \A i \in DOMAIN gs : gs[i] # {}
    /\ \A i, j \in DOMAIN gs : i # j => gs[i] \cap gs[j] = {}
    /\ UNION Range(gs) = cells

----------------------------------------------------------------------------
\* C1: whatever the input set and whatever the oracle answers, the returned
\* list consists of non-empty, pairwise disjoint groups whose union is the
\* input set.
C1_PartitionExact ==
    \A gs \in result : IsPartition(gs, all_hexes)

C1_Witness ==
    /\ pc = "done"
    /\ Len(connected_groups) >= 2
    /\ \E i \in DOMAIN connected_groups : Cardinality(connected_groups[i]) >= 2

\* C2 as stated: for every oracle, symmetric or not, two input cells are in
\* the same returned group exactly when a chain leads from the first to the
\* second.
C2_ChainIffSameGroup_AnyOracle ==
    \A gs \in result : \A a, b \in all_hexes :
        SameGroup(gs, a, b) <=> Chain(a, b)

\* C2 amended: when the oracle restricted to the input is symmetric, two
\* input cells are in the same returned group exactly when a chain leads from
\* the first to the second.
C2_ChainIffSameGroup_Symmetric ==
    \A gs \in result :
        SymmetricOnInput =>
            \A a, b \in all_hexes : SameGroup(gs, a, b) <=> Chain(a, b)

\* two cells in one group that are linked only through a third
C2_Witness ==
    /\ pc = "done"
    /\ SymmetricOnInput
    /\ \E a, b \in all_hexes :
          /\ a # b
          /\ b \notin Nbrs(a)
          /\ SameGroup(connected_groups, a, b)

\* C3: for an adjacency graph (a symmetric oracle) the number of returned
\* groups is the number of connected components of the graph restricted to
\* the input, for every seed order and every enqueue order.
C3_GroupCountIsComponentCount ==
    \A gs \in result :
        SymmetricOnInput => Len(gs) = Cardinality(Components)

\* two clusters without a connecting edge, one of them with an edge inside
C3_Witness ==
    /\ pc = "done"
    /\ SymmetricOnInput
    /\ Cardinality(Components) = 2
    /\ \E a, b \in all_hexes : a # b /\ b \in Nbrs(a)

\* C4: for the empty input the loop body never runs: no seed is picked, the
\* oracle is never queried, nothing raises, and the list returned is empty.
C4_EmptyInput ==
    all_hexes = {} =>
        /\ pc \in {"outer", "done"}
        /\ ~oracle_failed
        /\ \A c \in Universe : calls[c] = 0
        /\ DOMAIN N = {}
        /\ \A gs \in result : gs = <<>>

C4_Witness == all_hexes = {} /\ pc = "done" /\ result = {<<>>}

\* C5 as stated: a cell whose answer meets the input in itself alone is
\* returned as a singleton group, and an input without any adjacency between
\* distinct cells is returned as one singleton group per cell.
C5_SingletonIsolation_AnyOracle ==
    \A gs \in result :
        /\ \A c \in all_hexes :
              Nbrs(c) \cap all_hexes = {c} => \E i \in DOMAIN gs : gs[i] = {c}
        /\ (\A c \in all_hexes : Nbrs(c) \cap all_hexes \subseteq {c}) =>
              /\ Len(gs) = Cardinality(all_hexes)
              /\ \A i \in DOMAIN gs : Cardinality(gs[i]) = 1

\* C5 amended: the cell must also not be in the answer for any other input
\* cell (which follows from the stated condition when the oracle is
\* symmetric).
C5_SingletonIsolation_NoInbound ==
    \A gs \in result :
        /\ \A c \in all_hexes :
              (/\ Nbrs(c) \cap all_hexes = {c}
               /\ \A d \in all_hexes \ {c} : c \notin Nbrs(d))
              => \E i \in DOMAIN gs : gs[i] = {c}
        /\ (\A c \in all_hexes : Nbrs(c) \cap all_hexes \subseteq {c}) =>
              /\ Len(gs) = Cardinality(all_hexes)
              /\ \A i \in DOMAIN gs : Cardinality(gs[i]) = 1

\* an isolated cell beside a group of two
C5_Witness ==
    /\ pc = "done"
    /\ \E c \in all_hexes :
          /\ Nbrs(c) \cap all_hexes = {c}
          /\ \A d \in all_hexes \ {c} : c \notin Nbrs(d)
          /\ \E i \in DOMAIN connected_groups : connected_groups[i] = {c}
    /\ \E i \in DOMAIN connected_groups : Cardinality(connected_groups[i]) = 2

\* C6 as stated: every run on the same input and the same oracle returns the
\* same set of groups, so every run returns the set the reference run
\* (smallest seed first, neighbours in ascending order) returns.
C6_OrderIndependent_AnyOracle ==
    \A gs \in result : Range(gs) = Range(RefGroups)

\* C6 amended: when the oracle restricted to the input is symmetric, every
\* run returns the set of groups the reference run returns.
C6_OrderIndependent_Symmetric ==
    \A gs \in result :
        SymmetricOnInput => Range(gs) = Range(RefGroups)

\* a run whose seeds came in another order than the reference run's
C6_Witness ==
    /\ pc = "done"
    /\ SymmetricOnInput
    /\ Len(connected_groups) >= 2
    /\ connected_groups # RefGroups
    /\ \E a, b \in all_hexes : a # b /\ b \in Nbrs(a)

\* C7: whatever the oracle answers (cycles, the queried cell itself), the
\* loop ends: either an oracle call raises, or the return is reached with
\* the queue and the unvisited set empty.
C7_Terminates ==
    <>(oracle_failed \/ (pc = "done" /\ unvisited = {} /\ queue = <<>>))

\* a finished run over a three-cell cycle in which a cell is its own neighbour
C7_Witness ==
    /\ pc = "done"
    /\ \E a, b, c \in all_hexes :
          /\ a # b /\ b # c /\ a # c
          /\ a \in Nbrs(a)
          /\ b \in Nbrs(a) /\ c \in Nbrs(b) /\ a \in Nbrs(c)

\* C8: once an oracle call has raised, the call has ended with that failure
\* and nothing is ever returned.
C8_NoPartialResultAfterFailure ==
    oracle_failed => (pc = "raised" /\ result = {})

\* a failure after a first group was already closed
C8_Witness ==
    /\ oracle_failed
    /\ connected_groups # <<>>
    /\ unvisited # {}

\* C9: cells outside the input are never put on the queue, never added to a
\* group and never passed to the oracle, whatever the oracle returns.
C9_OnlyInputCellsFollowed ==
    /\ \A i \in DOMAIN queue : queue[i] \in all_hexes
    /\ group \subseteq all_hexes
    /\ \A i \in DOMAIN connected_groups : connected_groups[i] \subseteq all_hexes
    /\ \A c \in Universe \ all_hexes : calls[c] = 0 /\ c \notin DOMAIN N

\* a finished run in which the oracle returned a cell outside the input
C9_Witness ==
    /\ pc = "done"
    /\ \E c \in DOMAIN N : ~(N[c] \subseteq all_hexes)

\* C10: no step changes the caller's cell set.
C10_InputUnchanged == [][all_hexes' = all_hexes]_vars

\* a finished run that consumed its whole copy of a non-empty input
C10_Witness ==
    /\ pc = "done"
    /\ unvisited = {}
    /\ all_hexes # {}
    /\ UNION Range(connected_groups) = all_hexes

\* C11: the seeds are taken in a stable order of the input (here: ascending),
\* so every run on the same input and oracle returns the same list of groups
\* in the same order, the list the run with seeds in that order returns
\* (stated for oracles symmetric on the input, as h3.k_ring is, so that only
\* the order of the list is at stake).
C11_GroupListOrderDeterministic ==
    \A gs \in result : SymmetricOnInput => gs = RefGroups

\* C20: at every step no cell occurs in the working queue more than once,
\* and the queue holds no more entries than there are input cells.
C20_QueueHoldsEachCellOnce ==
    /\ \A i, j \in DOMAIN queue : i # j => queue[i] # queue[j]
    /\ Len(queue) <= Cardinality(all_hexes)

----------------------------------------------------------------------------
\* Vocabulary of the square-grid properties

Indexed == sq.pc \in {"test_2", "neighbors", "done"}

\* floor(x) of a rational with a positive denominator
Floor(x) == x[1] \div x[2]

RatAbsDiff(p, q) == <<Abs(p[1] * q[2] - q[1] * p[2]), p[2] * q[2]>>

\* the grid coordinates the code computes for a point (lines 314-315)
GridCoords(p, resolution) ==
    <<PyInt(RatDiv(p[2], grid_size(resolution))),
      PyInt(RatDiv(p[1], grid_size(resolution)))>>

\* the grid coordinates of the cell of width grid_size that holds the point
FloorCoords(p, resolution) ==
    <<Floor(RatDiv(p[2], grid_size(resolution))),
      Floor(RatDiv(p[1], grid_size(resolution)))>>

\* C13: the identifier of every point, negative coordinates included, is
\* built from floor(longitude / cell_size) and floor(latitude / cell_size).
C13_GridCoordIsFloor ==
    Indexed =>
        \A i \in DOMAIN sq.points :
            sq.square_indices[i] =
                <<FloorCoords(sq.points[i], sq.resolution)[1],
                  FloorCoords(sq.points[i], sq.resolution)[2],
                  sq.resolution>>

\* C14: two points in one grid cell get the same identifier, and two points
\* more than one cell width apart along an axis get different identifiers,
\* also when they lie on opposite sides of zero.
C14_SameCellSameId ==
    Indexed =>
        LET a == sq.points[1]
            b == sq.points[2]
            size == grid_size(sq.resolution)
        IN  /\ FloorCoords(a, sq.resolution) = FloorCoords(b, sq.resolution)
                  => sq.square_indices[1] = sq.square_indices[2]
            /\ (\/ RatLess(size, RatAbsDiff(a[1], b[1]))
                \/ RatLess(size, RatAbsDiff(a[2], b[2])))
                  => sq.square_indices[1] # sq.square_indices[2]

\* C15: the identifier square_grid_index gives the centre point is among the
\* identifiers square_grid_neighbors returns for the centre's grid
\* coordinates, and every identifier returned has the form of an index
\* identifier (x, y, resolution).
C15_NeighborsUseIndexIds ==
    sq.pc = "done" =>
        /\ sq.square_indices[1] \in Range(sq.neighbors)
        /\ \A i \in DOMAIN sq.neighbors :
              /\ Len(sq.neighbors[i]) = 3
              /\ sq.neighbors[i][3] = sq.resolution

\* C16: the identifiers returned are exactly those of the cells at Manhattan
\* distance at most k from (grid_x, grid_y).
C16_NeighborsAreManhattanBall ==
    sq.pc = "done" =>
        Range(sq.neighbors) =
            {<<sq.center_grid[1] + dx, sq.center_grid[2] + dy>> :
                <<dx, dy>> \in
                    {d \in (-(sq.k + 1)..(sq.k + 1)) \X (-(sq.k + 1)..(sq.k + 1)) :
                        Abs(d[1]) + Abs(d[2]) <= sq.k}}

\* a query with k = 2 around a cell with a negative coordinate
C16_Witness ==
    /\ sq.pc = "done"
    /\ sq.k = 2
    /\ sq.center_grid[1] < 0
    /\ Len(sq.neighbors) = 13

\* C17: for every k >= 0 the cell itself is among its neighbours.
C17_NeighborsContainCell ==
    sq.pc = "done" => sq.center_grid \in Range(sq.neighbors)

\* k = 0: the cell is the only neighbour
C17_Witness ==
    /\ sq.pc = "done"
    /\ sq.k = 0
    /\ sq.neighbors = <<sq.center_grid>>

C19_CellSizeDecreases ==
    sq.pc \in {"neighbors", "done"} =>
        /\ RatLess(grid_size(sq.resolution + 1), sq.grid_size)
        /\ 2 * grid_size(sq.resolution + 1)[1] * sq.grid_size[2]
              = sq.grid_size[1] * grid_size(sq.resolution + 1)[2]
        /\ sq.resolution > 0 =>
              RatLess(sq.grid_size, grid_size(sq.resolution - 1))

C19_Witness ==
    /\ sq.pc = "done"
    /\ sq.resolution > 0
    /\ sq.grid_size = <<1, 10 * Pow2(sq.resolution)>>

----------------------------------------------------------------------------
\* Vocabulary of the two-call property

RECURSIVE ReachIn(_, _, _)
ReachIn(S, cells, Nf) ==
    LET T == S \cup {d \in cells : \E c \in S : c \in DOMAIN Nf /\ d \in Nf[c]}
    IN  IF T = S THEN S ELSE ReachIn(T, cells, Nf)

ComponentsIn(cells, Nf) == {ReachIn({c}, cells, Nf) : c \in cells}

SymmetricIn(cells, Nf) ==
    \A a, b \in cells :
        (a \in DOMAIN Nf /\ b \in Nf[a]) <=> (b \in DOMAIN Nf /\ a \in Nf[b])

\* what each call returns is what it returns alone: a partition of its own
\* input, for a symmetric oracle the components of its own adjacency
ReturnsAsAlone ==
    /\ \A gs \in result :
          /\ IsPartition(gs, all_hexes)
          /\ SymmetricOnInput => Range(gs) = Range(RefGroups)
    /\ \A gs \in other.result :
          /\ IsPartition(gs, other.all_hexes)
          /\ SymmetricIn(other.all_hexes, other.N) =>
                Range(gs) = ComponentsIn(other.all_hexes, other.N)

\* a step changes the locals of one call only, and changes the first call's
\* locals exactly as a step of the call run alone does
StepsOfOneCall ==
    /\ loop_vars' # loop_vars => (LoopNext /\ other' = other)
    /\ other' # other => loop_vars' = loop_vars

\* C12: however the steps of two calls with their own cell sets and oracles
\* are interleaved, no step of one call changes the unvisited set, queue,
\* group or group list of the other, each call steps as it does alone, and
\* each returns the partition it returns alone.
C12_InterleavedCallsIndependent ==
    []ReturnsAsAlone /\ [][StepsOfOneCall]_vars

\* both calls have returned, on different non-empty inputs
C12_Witness ==
    /\ pc = "done"
    /\ other.pc = "done"
    /\ all_hexes # {}
    /\ other.all_hexes # {}
    /\ all_hexes # other.all_hexes
    /\ \E i \in DOMAIN connected_groups : Cardinality(connected_groups[i]) = 2
    /\ Len(other.connected_groups) = 2

----------------------------------------------------------------------------
\* Vocabulary of the loop's step properties

\* the group being built: `group` between the seed (line 290) and the append
\* (line 306), or when an oracle failure ended the call in between
UnderConstruction == IF pc \in {"inner", "raised"} THEN group ELSE {}

\* C21: no cell is visited twice.  At no moment has the oracle been queried
\* more than once for a cell (a query goes with the one addition of the cell
\* to a group, lines 296-300), and when the run returns every input cell has
\* been queried exactly once and lies in exactly one group, however often it
\* was put on the queue.
C21_EachCellVisitedOnce ==
    /\ \A c \in Universe : calls[c] <= 1
    /\ \A c \in Universe : calls[c] = 1 <=> c \in all_hexes \ unvisited
    /\ pc = "done" =>
          \A c \in all_hexes :
              /\ calls[c] = 1
              /\ Cardinality({i \in DOMAIN connected_groups :
                                 c \in connected_groups[i]}) = 1

\* a finished run over three mutually adjacent cells: the third cell was on
\* the queue twice, put there by the first and by the second
C21_Witness ==
    /\ pc = "done"
    /\ all_hexes = Universe
    /\ Cardinality(all_hexes) >= 3
    /\ \A a, b \in all_hexes : a # b => b \in Nbrs(a)
    /\ \A c \in all_hexes : calls[c] = 1

\* C22: a group is appended only when it is maximal: in the step that closes
\* the group no unvisited cell is in the oracle's answer for any member of
\* the group.
C22_ClosedGroupIsMaximal ==
    [][CloseGroup => \A c \in group : Nbrs(c) \cap unvisited = {}]_vars

\* a group of two was closed while other cells were still unvisited
C22_Witness ==
    /\ pc = "outer"
    /\ unvisited # {}
    /\ Cardinality(group) >= 2
    /\ connected_groups # <<>>
    /\ connected_groups[Len(connected_groups)] = group

\* C23: at every step the closed groups, the group under construction and
\* the unvisited set are pairwise disjoint, together they are the input set,
\* and every queue entry is an input cell.
C23_LoopPartitionInvariant ==
    /\ \A i, j \in DOMAIN connected_groups :
          i # j => connected_groups[i] \cap connected_groups[j] = {}
    /\ \A i \in DOMAIN connected_groups :
          /\ connected_groups[i] \cap UnderConstruction = {}
          /\ connected_groups[i] \cap unvisited = {}
    /\ UnderConstruction \cap unvisited = {}
    /\ UNION Range(connected_groups) \cup UnderConstruction \cup unvisited
          = all_hexes
    /\ \A i \in DOMAIN queue : queue[i] \in all_hexes

\* in the middle of the second group: one group closed, one cell in the
\* group, one cell on the queue and still unvisited
C23_Witness ==
    /\ pc = "inner"
    /\ connected_groups # <<>>
    /\ group # {}
    /\ unvisited # {}
    /\ queue # <<>>

----------------------------------------------------------------------------
\* C24: the neighbour relation is symmetric (b is among the neighbours of a
\* within k exactly when a is among those of b), grows with k (the
\* neighbours within k are among those within k+1), and the list returned
\* holds 2k(k+1)+1 identifiers, all different.
C24_NeighborsSymmetricMonotone ==
    sq.pc = "queried" =>
        /\ (sq.b \in Range(sq.of_a)) <=> (sq.a \in Range(sq.of_b))
        /\ Range(sq.of_a) \subseteq Range(sq.of_a_next)
        /\ Len(sq.of_a) = 2 * sq.k * (sq.k + 1) + 1
        /\ Cardinality(Range(sq.of_a)) = Len(sq.of_a)
        /\ Len(sq.of_a_next) = 2 * (sq.k + 1) * (sq.k + 2) + 1
        /\ Cardinality(Range(sq.of_a_next)) = Len(sq.of_a_next)

\* two different cells, each among the five neighbours of the other within
\* k = 1, one of them with negative coordinates
C24_Witness ==
    /\ sq.pc = "queried"
    /\ sq.k = 1
    /\ sq.a # sq.b
    /\ sq.a[1] < 0 /\ sq.a[2] < 0
    /\ sq.b \in Range(sq.of_a)
    /\ sq.a \in Range(sq.of_b)
    /\ Len(sq.of_a) = 5
    /\ Len(sq.of_a_next) = 13

----------------------------------------------------------------------------
\* C25: the range query returns exactly the filed points that lie in the
\* rectangle, each once: every point of the rectangle is filed under a cell
\* among those scanned, so none is missed, and no point outside the
\* rectangle is returned.
C25_RangeQueryExact ==
    /\ rq.pc \in {"scan", "done"} =>
          \A i \in DOMAIN rq.points :
              InArea(rq.area, rq.points[i][1], rq.points[i][2]) =>
                  \E j \in DOMAIN rq.scanned :
                      /\ rq.scanned[j] \in DOMAIN rq.square_points
                      /\ \E n \in DOMAIN rq.square_points[rq.scanned[j]] :
                            rq.square_points[rq.scanned[j]][n]
                                = <<rq.points[i][1], rq.points[i][2], i - 1>>
    /\ rq.pc = "done" =>
          /\ Range(rq.square_result) =
                {i - 1 : i \in {n \in DOMAIN rq.points :
                    InArea(rq.area, rq.points[n][1], rq.points[n][2])}}
          /\ Cardinality(Range(rq.square_result)) = Len(rq.square_result)

\* a rectangle across zero that holds one point, in a cell of negative
\* coordinates, and leaves the other point out
C25_Witness ==
    /\ rq.pc = "done"
    /\ Len(rq.square_result) = 1
    /\ Len(rq.scanned) >= 4
    /\ \E key \in DOMAIN rq.square_points : key[1] < 0 /\ key[2] < 0
    /\ \E i \in DOMAIN rq.points :
          /\ rq.points[i][1][1] < 0
          /\ rq.points[i][2][1] < 0
          /\ rq.square_result = <<i - 1>>

----------------------------------------------------------------------------
\* Vocabulary of the dummy-data properties

LoadCall == perf.pc = "ready" /\ perf'.op = "load" /\ perf'.ncalls # perf.ncalls

PrepareCall ==
    /\ perf.pc = "ready"
    /\ perf'.op \in {"prepare", "prepare_default"}
    /\ perf'.ncalls # perf.ncalls

\* C26: a call of load_or_create_dummy_data on an existing file that loads
\* takes the data from the file and neither generates nor writes; on a
\* missing file or a failing load it generates data and writes it to the
\* file; whenever it returns, self.dummy_data is what it returns.
C26_LoadOrCreate ==
    [][LoadCall =>
        /\ Loads(perf.file, perf'.read_ok) =>
              /\ perf'.dummy_data = DataOf(perf.file.rows)
              /\ perf'.gens = perf.gens
              /\ perf'.writes = perf.writes
              /\ perf'.file = perf.file
              /\ perf'.pc = "ready"
        /\ ~Loads(perf.file, perf'.read_ok) =>
              /\ perf'.gens = perf.gens + 1
              /\ perf'.writes = perf.writes + 1
              /\ perf'.pc = "ready" => perf'.file = perf'.dummy_data
        /\ perf'.pc = "ready" =>
              /\ perf'.dummy_data.kind = "data"
              /\ perf'.ret = perf'.dummy_data]_vars

\* a call that loaded what an earlier call had generated and written
C26_Witness ==
    /\ perf.op = "load"
    /\ perf.path = "loaded"
    /\ perf.gens = 1
    /\ perf.writes = 1
    /\ perf.ncalls = 2
    /\ perf.ret = perf.file
    /\ Len(perf.ret.rows) > 0

\* C27: prepare_performance_data returns active rows only, as many as
\* min(sample_size, number of active rows); when no data was loaded it loads
\* or creates it first, and data that was loaded is left as it is.
C27_PrepareReturnsActiveSample ==
    [][(PrepareCall /\ perf'.pc = "ready") =>
        LET rows == perf'.dummy_data.rows
            active == {i \in DOMAIN rows : rows[i] = TRUE}
        IN  /\ perf'.sample \subseteq active
            /\ Cardinality(perf'.sample) =
                  Min({perf'.requested, Cardinality(active)})
            /\ perf.dummy_data.kind = "None" =>
                  /\ perf'.path \in {"loaded", "created"}
                  /\ perf'.dummy_data.kind = "data"
            /\ perf.dummy_data.kind # "None" =>
                  /\ perf'.dummy_data = perf.dummy_data
                  /\ perf'.gens = perf.gens
                  /\ perf'.writes = perf.writes
                  /\ perf'.file = perf.file]_vars

\* two rows asked for where one of the two rows is active
C27_Witness ==
    /\ perf.op = "prepare"
    /\ perf.pc = "ready"
    /\ perf.requested = 2
    /\ Len(perf.dummy_data.rows) = 2
    /\ Cardinality(perf.sample) = 1
    /\ \E i \in DOMAIN perf.dummy_data.rows : ~perf.dummy_data.rows[i]

----------------------------------------------------------------------------
\* C28: check_tables and the tests run only after connect_db returned True;
\* close_connection is never called twice and never after a failed connect;
\* when the run has ended after a successful connect -- check_tables
\* returned False, a call raised, or everything ran -- close_connection was
\* called exactly once; a failed connect ends the run at once.
C28_CloseExactlyOnceAfterConnect ==
    /\ (pg.checks > 0 \/ pg.ran > 0) => pg.connected
    /\ pg.closes <= 1
    /\ ~pg.connected => (pg.closes = 0 /\ pg.pc \in {"none", "connect", "end"})
    /\ (pg.pc = "end" /\ pg.connected) => pg.closes = 1
    /\ pg.closes = 1 => pg.pc = "end"

\* the run ended after check_tables returned False, with the connection
\* closed
C28_Witness ==
    /\ pg.pc = "end"
    /\ pg.connected
    /\ pg.check = "no_tables"
    /\ pg.closes = 1
    /\ pg.conn = "closed"
    /\ pg.ran = 0

----------------------------------------------------------------------------
\* C29: every match names an available driver, never a busy one; the driver
\* of the order matched last is at minimal distance among the available
\* drivers and is the first of them in list order at that distance; as many
\* matches as orders went through the loop when a driver is available, none
\* otherwise.
C29_MatchesNearestAvailable ==
    delivery.pc \in {"matching", "done"} =>
        LET free == {d \in DOMAIN delivery.drivers :
                        delivery.drivers[d] = "available"}
            matches == delivery.matches
        IN  /\ \A i \in DOMAIN matches :
                  /\ matches[i].driver_id \in free
                  /\ delivery.drivers[matches[i].driver_id] # "busy"
            /\ Len(matches) = (IF free # {} THEN delivery.order ELSE 0)
            /\ \A i \in DOMAIN matches : matches[i].order_id = i
            /\ (delivery.order > 0 /\ free # {}) =>
                  LET last == matches[Len(matches)]
                  IN  /\ last.order_id = delivery.order
                      /\ last.h3_distance = delivery.dist[last.driver_id]
                      /\ \A d \in free :
                            delivery.dist[d] >= last.h3_distance
                      /\ \A d \in free :
                            delivery.dist[d] = last.h3_distance
                                => last.driver_id <= d
            /\ delivery.pc = "done" => delivery.order = delivery.orders

\* both orders went to the second driver: the first is busy, the third is
\* as near to the last order as the second
C29_Witness ==
    /\ delivery.pc = "done"
    /\ Len(delivery.drivers) = 3
    /\ delivery.drivers[1] = "busy"
    /\ delivery.drivers[3] = "available"
    /\ Len(delivery.matches) = 2
    /\ delivery.matches[1].driver_id = 2
    /\ delivery.matches[2].driver_id = 2
    /\ delivery.dist[3] = delivery.dist[2]

----------------------------------------------------------------------------
\* C30: the cache is transparent: every call of cached_geo_to_h3 returns
\* the cell h3.geo_to_h3 gives for the same arguments; the lookup has been
\* made at most once for each key, and a stored entry never changes.
C30_CacheTransparent ==
    /\ cache.pc = "ready" /\ cache.ncalls > 0 =>
          cache.ret = cache.geo[cache.args]
    /\ cache.pc = "ready" =>
          \A k \in DOMAIN cache.lookups : cache.lookups[k] <= 1

====
